---- MODULE Spec2Model ----
(***************************************************************************)
(* Model of the solar dashboard: the data loader of app/utils.py           *)
(* (load_and_preprocess_data behind st.cache_data), the three aggregation  *)
(* functions of app/utils.py and the dashboard run of app/main.py.         *)
(*                                                                         *)
(* A data frame is a sequence of rows; a row is a record                   *)
(*   [TIMESTAMP, GHI, Country, origin]                                     *)
(* where origin is a ghost field recording whether the row was read from a *)
(* file ("file") or generated by the mock branch ("mock").  Timestamps are *)
(* integers counting slots of the model calendar (see Calendar).           *)
(***************************************************************************)
EXTENDS Integers, Sequences, FiniteSets, TLC

VARIABLES
    files,      \* the data directory: country -> file (or absent)
    cache,      \* the st.cache_data entry of load_and_preprocess_data
    out,        \* outcome of the last invocation of load_and_preprocess_data
    view,       \* what the last dashboard run (main) did
    df,         \* the data frame handed to the aggregation functions
    trend,      \* granularity -> last table resampled by create_time_series_plot
    mean_ghi    \* last table returned by create_top_regions_table

vars == <<files, cache, out, view, df, trend, mean_ghi>>

-----------------------------------------------------------------------------
(* Bounds of the model *)

MaxRows == 2        \* rows in one country file
MockLen == 1        \* rows generated per country by the mock branch
MaxFrameRows == 3   \* rows of a data frame handed to the aggregators

-----------------------------------------------------------------------------
(* Constants of the program *)

COUNTRIES == <<"Benin", "Sierra_Leone", "Togo">>

CountrySet == {COUNTRIES[i] : i \in 1..Len(COUNTRIES)}

GRANULARITIES == {"Daily", "Weekly", "Monthly"}

\* Position of a country in COUNTRIES (also its alphabetical rank).
CountryRank(c) == CHOOSE i \in 1..Len(COUNTRIES) : COUNTRIES[i] = c

-----------------------------------------------------------------------------
(* Inputs *)

\* Cell values of a file: timestamps within the first day, readings of
\* either sign (a file is not checked for negative readings).
FileTimestamps == {0, 1}
FileReadings == {-1, 1}

\* Values np.random.normal can draw before the clamp.
DrawValues == {-1, 1}

\* A row of a file.  A negative reading (the sensor's night-time offset)
\* occurs at the first timestamp only.
FileRow ==
    {r \in [TIMESTAMP : FileTimestamps, GHI : FileReadings] :
        r.GHI < 0 => r.TIMESTAMP = 0}

RECURSIVE SeqsUpTo(_, _)
SeqsUpTo(S, n) ==
    IF n = 0 THEN {<< >>}
    ELSE LET shorter == SeqsUpTo(S, n - 1)
         IN shorter \cup {Append(s, x) : s \in {t \in shorter : Len(t) = n - 1}, x \in S}

Absent == [exists |-> FALSE, columns |-> {}, rows |-> << >>]

\* A file that exists.  The rows of a file whose header lacks a column are
\* never read by the loader, so only the header is kept for those.
FileStates ==
    {Absent}
    \cup {[exists |-> TRUE, columns |-> cs, rows |-> << >>] :
              cs \in {{"GHI"}, {"TIMESTAMP"}}}
    \cup {[exists |-> TRUE, columns |-> {"TIMESTAMP", "GHI"}, rows |-> rs] :
              rs \in SeqsUpTo(FileRow, MaxRows)}

\* One sequence of draws per country, each of the generated length.
DrawSeqs == {s \in SeqsUpTo(DrawValues, MockLen) : Len(s) = MockLen}
Draws == [CountrySet -> DrawSeqs]

-----------------------------------------------------------------------------
(* load_and_preprocess_data *)

\* utils.py:37-39  df['Country'] = country; df[['GHI', 'Country']]
RealFrame(rows, country) ==
    [i \in 1..Len(rows) |->
        [TIMESTAMP |-> rows[i].TIMESTAMP, GHI |-> rows[i].GHI,
         Country |-> country, origin |-> "file"]]

\* utils.py:22-39  the loop of the try block.  It stops at the first
\* exception: FileNotFoundError of read_csv, KeyError of df['TIMESTAMP'].
RECURSIVE RealLoop(_, _, _, _)
RealLoop(fs, i, all_data, warnings) ==
    IF i > Len(COUNTRIES)
    THEN [exc |-> "none", all_data |-> all_data, warnings |-> warnings]
    ELSE LET country == COUNTRIES[i]
             f == fs[country]
         IN  IF ~f.exists
             THEN [exc |-> "FileNotFoundError", all_data |-> all_data,
                   warnings |-> warnings]
             ELSE IF "TIMESTAMP" \notin f.columns
             THEN [exc |-> "KeyError", all_data |-> all_data,
                   warnings |-> warnings]
             ELSE IF "GHI" \notin f.columns
             THEN RealLoop(fs, i + 1, all_data,
                           Append(warnings, [kind |-> "ghi_missing", country |-> country]))
             ELSE RealLoop(fs, i + 1,
                           Append(all_data, RealFrame(f.rows, country)), warnings)

\* utils.py:62  ghi[ghi < 0] = 0
NoClamp(g) == g
Clamp(g) == IF g < 0 THEN 0 ELSE g

\* utils.py:51-67  one country's mock frame: hourly timestamps from the
\* start date, clamped draws.
MockFrame(country, draws) ==
    [i \in 1..Len(draws) |->
        [TIMESTAMP |-> i - 1, GHI |-> Clamp(draws[i]),
         Country |-> country, origin |-> "mock"]]

\* utils.py:49-67  the loop of the except block.
MockDataWithoutLast(draws) ==
    [i \in 1..(Len(COUNTRIES) - 1) |-> MockFrame(COUNTRIES[i], draws[COUNTRIES[i]])]
MockData(draws) ==
    [i \in 1..Len(COUNTRIES) |-> MockFrame(COUNTRIES[i], draws[COUNTRIES[i]])]

\* utils.py:44  all_data = []
KeepPartial(partial) == partial
ResetAllData(partial) == << >>

\* utils.py:75  pd.concat(all_data)
RECURSIVE ConcatReversed(_)
ConcatReversed(frames) ==
    IF Len(frames) = 0 THEN << >>
    ELSE ConcatReversed(Tail(frames)) \o Head(frames)
RECURSIVE Concat(_)
Concat(frames) ==
    IF Len(frames) = 0 THEN << >>
    ELSE Head(frames) \o Concat(Tail(frames))

\* The outcome of an invocation: how it ended, the dataset returned, whether
\* the body ran (executed) and whether its except branch ran (mock).
NoOutcome ==
    [status |-> "none", data |-> << >>, executed |-> FALSE,
     mock |-> FALSE, warnings |-> << >>]

\* utils.py:18-76  the body of load_and_preprocess_data.
LoadBody(fs, draws) ==
    LET real == RealLoop(fs, 1, << >>, << >>)
    IN  IF real.exc = "KeyError"
        THEN [status |-> "KeyError", data |-> << >>, executed |-> TRUE,
              mock |-> FALSE, warnings |-> real.warnings]
        ELSE LET mock == real.exc = "FileNotFoundError"
                 all_data == IF mock
                             THEN ResetAllData(real.all_data) \o MockData(draws)
                             ELSE real.all_data
                 warnings == IF mock
                             THEN Append(real.warnings,
                                         [kind |-> "mock", country |-> "all"])
                             ELSE real.warnings
             IN  IF Len(all_data) = 0
                 THEN [status |-> "ValueError", data |-> << >>, executed |-> TRUE,
                       mock |-> mock, warnings |-> warnings]
                 ELSE [status |-> "returned", data |-> Concat(all_data),
                       executed |-> TRUE, mock |-> mock, warnings |-> warnings]

EmptyCache == [set |-> FALSE, value |-> << >>]

\* utils.py:10  @st.cache_data: a stored value is returned without running
\* the body; a value is stored when the body returns, not when it raises.
UncachedLoad(c, fs, draws) ==
    LET o == LoadBody(fs, draws)
    IN  [out |-> o,
         cache |-> IF o.status = "returned"
                   THEN [set |-> TRUE, value |-> o.data] ELSE c]
CachedLoad(c, fs, draws) ==
    IF c.set
    THEN [out |-> [status |-> "returned", data |-> c.value, executed |-> FALSE,
                   mock |-> FALSE, warnings |-> << >>],
          cache |-> c]
    ELSE LET o == LoadBody(fs, draws)
         IN  [out |-> o,
              cache |-> IF o.status = "returned"
                        THEN [set |-> TRUE, value |-> o.data] ELSE c]

-----------------------------------------------------------------------------
(* The calendar behind resample('D'), resample('W') and resample('M') *)

\* The model calendar, scaled down: a day has slotsPerDay timestamps, a week
\* daysPerWeek days, and month m has monthDays[m] days.  Weeks and months do
\* not line up, and the months differ in length, as in the real calendar.
Calendar == [slotsPerDay |-> 2, daysPerWeek |-> 2, monthDays |-> <<1, 2>>]

RECURSIVE DaysBefore(_)
\* Number of days in the months before month m (months are numbered from 1).
DaysBefore(m) == IF m <= 1 THEN 0 ELSE DaysBefore(m - 1) + Calendar.monthDays[m - 1]

NumDays == DaysBefore(Len(Calendar.monthDays) + 1)

CalendarTimestamps == 0..(NumDays * Calendar.slotsPerDay - 1)

DayOf(t) == t \div Calendar.slotsPerDay
WeekOf(d) == d \div Calendar.daysPerWeek
MonthOf(d) == CHOOSE m \in 1..Len(Calendar.monthDays) :
                  DaysBefore(m) <= d /\ d < DaysBefore(m + 1)

\* utils.py:99-104  the bucket a timestamp falls in under 'D', 'W', 'M'.
Bucket(granularity, t) ==
    IF granularity = "Daily" THEN DayOf(t)
    ELSE IF granularity = "Weekly" THEN WeekOf(DayOf(t))
    ELSE MonthOf(DayOf(t))

\* The TIMESTAMP pandas labels a bucket with: the day for 'D', the last day
\* of the week for 'W', the last day of the month for 'M'.
Label(granularity, b) ==
    IF granularity = "Daily" THEN b * Calendar.slotsPerDay
    ELSE IF granularity = "Weekly"
    THEN ((b + 1) * Calendar.daysPerWeek - 1) * Calendar.slotsPerDay
    ELSE (DaysBefore(b + 1) - 1) * Calendar.slotsPerDay

-----------------------------------------------------------------------------
(* The aggregation functions *)

RECURSIVE SumGHI(_)
SumGHI(rows) == IF Len(rows) = 0 THEN 0 ELSE Head(rows).GHI + SumGHI(Tail(rows))

\* .mean() of a group: the sum and the number of values; n = 0 is NaN.
SumNotMean(rows) == [sum |-> SumGHI(rows), n |-> IF Len(rows) = 0 THEN 0 ELSE 1]
Mean(rows) == [sum |-> SumGHI(rows), n |-> Len(rows)]

\* df.groupby('Country'): the rows of one group.
AllRows(frame, country) == frame
GroupRows(frame, country) ==
    LET InGroup(r) == r.Country = country IN SelectSeq(frame, InGroup)

\* df.groupby('Country'): the group keys, sorted.
GroupKeys(frame) ==
    LET Occurs(c) == \E i \in 1..Len(frame) : frame[i].Country = c
    IN  SelectSeq(COUNTRIES, Occurs)

\* utils.py:99-104  ['GHI'].resample(rule).mean() of one group: one row per
\* bucket from the group's first bucket to its last, empty ones included.
ResampleGroup(rows, country, granularity) ==
    LET buckets == {Bucket(granularity, rows[i].TIMESTAMP) : i \in 1..Len(rows)}
        lo == CHOOSE b \in buckets : \A x \in buckets : b <= x
        hi == CHOOSE b \in buckets : \A x \in buckets : x <= b
    IN  [k \in 1..(hi - lo + 1) |->
            LET InBucket(r) == Bucket(granularity, r.TIMESTAMP) = lo + k - 1
            IN  [Country |-> country,
                 TIMESTAMP |-> Label(granularity, lo + k - 1),
                 GHI |-> Mean(SelectSeq(rows, InBucket))]]

\* utils.py:98-104  the resampled table of create_time_series_plot.
Resample(frame, granularity) ==
    LET keys == GroupKeys(frame)
    IN  Concat([i \in 1..Len(keys) |->
                   ResampleGroup(GroupRows(frame, keys[i]), keys[i], granularity)])

\* utils.py:124  .round(2) of a mean, in hundredths (round half to even).
Round2(m) ==
    LET q == (100 * m.sum) \div m.n
        r == (100 * m.sum) % m.n
    IN  IF 2 * r < m.n THEN q
        ELSE IF 2 * r > m.n THEN q + 1
        ELSE IF q % 2 = 0 THEN q ELSE q + 1

\* utils.py:125  sort_values(ascending=False): rows of equal value keep
\* their order.
RECURSIVE SortAscending(_)
SortAscending(rows) ==
    IF Len(rows) = 0 THEN << >>
    ELSE LET rest == SortAscending(Tail(rows))
             h == Head(rows)
             Before(r) == r.Average_GHI < h.Average_GHI
             After(r) == ~(r.Average_GHI < h.Average_GHI)
         IN  SelectSeq(rest, Before) \o <<h>> \o SelectSeq(rest, After)
RECURSIVE SortDescending(_)
SortDescending(rows) ==
    IF Len(rows) = 0 THEN << >>
    ELSE LET rest == SortDescending(Tail(rows))
             h == Head(rows)
             Before(r) == r.Average_GHI > h.Average_GHI
             After(r) == ~(r.Average_GHI > h.Average_GHI)
         IN  SelectSeq(rest, Before) \o <<h>> \o SelectSeq(rest, After)

\* utils.py:117-127
create_top_regions_table(frame) ==
    LET keys == GroupKeys(frame)
    IN  SortDescending([i \in 1..Len(keys) |->
            [Country |-> keys[i],
             Average_GHI |-> Round2(Mean(GroupRows(frame, keys[i])))]])

-----------------------------------------------------------------------------
(* main *)

\* main.py:49  df_combined[df_combined['Country'].isin(selected_countries)]
IsinIgnored(frame, selected) == frame
Isin(frame, selected) ==
    LET Selected(r) == r.Country \in selected IN SelectSeq(frame, Selected)

\* A call of one of the functions of utils.py, with its arguments.
NotCalled == [called |-> FALSE, df |-> << >>, granularity |-> "none"]
Called(frame, granularity) ==
    [called |-> TRUE, df |-> frame, granularity |-> granularity]

NoView ==
    [ran |-> FALSE, outcome |-> "none", executed |-> FALSE, selected |-> {},
     granularity |-> "none", df_combined |-> << >>,
     comparison |-> NotCalled, top_regions |-> NotCalled,
     timeseries |-> NotCalled, warnings |-> << >>]

\* main.py:61, main.py:84  df_filtered.empty
IsEmpty(frame) == Len(frame) = 0

\* main.py:48-88  the part of a run after the loader returned: the filter,
\* and the calls of create_country_comparison_plot, create_top_regions_table
\* and create_time_series_plot.
Layout(df_combined, selected, granularity, executed) ==
    LET df_filtered == Isin(df_combined, selected)
        empty == IsEmpty(df_filtered)
    IN  [ran |-> TRUE, outcome |-> "ok", executed |-> executed,
         selected |-> selected, granularity |-> granularity,
         df_combined |-> df_combined,
         comparison |-> IF empty THEN NotCalled ELSE Called(df_filtered, "none"),
         top_regions |-> Called(df_combined, "none"),
         timeseries |-> IF empty THEN NotCalled
                        ELSE Called(df_filtered, granularity),
         warnings |-> IF empty
                      THEN <<"Please select at least one country.",
                             "Cannot display Time Series without data.">>
                      ELSE << >>]

\* main.py:17-110  one run of the script; an exception of the loader ends it.
Main(o, selected, granularity) ==
    IF o.status = "returned"
    THEN Layout(o.data, selected, granularity, o.executed)
    ELSE [NoView EXCEPT !.ran = TRUE, !.outcome = o.status,
                        !.executed = o.executed, !.selected = selected,
                        !.granularity = granularity]

-----------------------------------------------------------------------------
(* The loader on a data directory *)

NoTrend == [g \in GRANULARITIES |-> [done |-> FALSE, rows |-> << >>]]
NoTable == [done |-> FALSE, rows |-> << >>]

Init ==
    /\ files \in [CountrySet -> FileStates]
    /\ cache = EmptyCache
    /\ out = NoOutcome
    /\ view = NoView
    /\ df = << >>
    /\ trend = NoTrend
    /\ mean_ghi = NoTable

\* The draws an invocation can make: np.random.normal is reached only when
\* the body runs and read_csv raises FileNotFoundError.
NoDraws == [c \in CountrySet |-> << >>]
DrawsOf(c, fs) ==
    IF ~c.set /\ RealLoop(fs, 1, << >>, << >>).exc = "FileNotFoundError"
    THEN Draws ELSE {NoDraws}

\* One invocation of load_and_preprocess_data().
Load ==
    \E draws \in DrawsOf(cache, files) :
        LET r == CachedLoad(cache, files, draws)
        IN  /\ out' = r.out
            /\ cache' = r.cache
            /\ UNCHANGED <<files, view, df, trend, mean_ghi>>

Next == Load

Spec == Init /\ [][Next]_vars

-----------------------------------------------------------------------------
(* Properties of the loader *)

Returned == out.status = "returned"
SomeFileAbsent == \E c \in CountrySet : ~files[c].exists
WellFormed(f) == f.exists /\ f.columns = {"TIMESTAMP", "GHI"}
CountriesIn(frame) == {frame[i].Country : i \in 1..Len(frame)}
AllFrom(frame, origin) == \A i \in 1..Len(frame) : frame[i].origin = origin

\* C1: when the file of at least one country is absent, a returned dataset
\* holds only generated rows and holds them for all three countries,
\* whichever file is missing and whatever was read before it.
C1_AllMockWhenAFileIsAbsent ==
    (Returned /\ SomeFileAbsent) =>
        /\ AllFrom(out.data, "mock")
        /\ CountriesIn(out.data) = CountrySet

\* C1 witness: Benin's rows were read, Togo's file was missing, and the body
\* returned.
C1_Witness ==
    /\ Returned /\ out.executed
    /\ WellFormed(files["Benin"]) /\ Len(files["Benin"].rows) > 0
    /\ WellFormed(files["Sierra_Leone"])
    /\ ~files["Togo"].exists

\* C2: the 'no data' ValueError is raised only in an execution in which the
\* mock branch ran as well as the real one.
C2_NoDataErrorOnlyAfterMock ==
    out.status = "ValueError" => out.mock

\* C3 (as claimed): an execution either stops with an error or returns a
\* dataset holding rows of every country of COUNTRIES.
C3_CompleteOrStops ==
    out.status # "none" =>
        \/ out.status \in {"KeyError", "ValueError"}
        \/ Returned /\ CountriesIn(out.data) = CountrySet

\* C3 (amended): an execution stops with an error or returns a dataset; a
\* generated dataset holds rows of all three countries, a dataset read from
\* the files holds rows of exactly the countries whose file has a GHI column
\* and at least one row.
C3_CompleteUpToSkippedCountries ==
    out.status # "none" =>
        \/ out.status \in {"KeyError", "ValueError"}
        \/ /\ Returned
           /\ \/ /\ Len(out.data) > 0
                 /\ AllFrom(out.data, "mock")
                 /\ CountriesIn(out.data) = CountrySet
              \/ /\ AllFrom(out.data, "file")
                 /\ CountriesIn(out.data) =
                        {c \in CountrySet : /\ "GHI" \in files[c].columns
                                            /\ Len(files[c].rows) > 0}

\* C3 witness: Sierra_Leone's file lacks GHI and the dataset returned has
\* no row of Sierra_Leone.
C3_Witness ==
    /\ Returned
    /\ files["Sierra_Leone"].exists /\ "GHI" \notin files["Sierra_Leone"].columns
    /\ CountriesIn(out.data) = {"Benin", "Togo"}

RECURSIVE RowsBefore(_)
\* Number of rows in the files of the countries before COUNTRIES[k].
RowsBefore(k) ==
    IF k <= 1 THEN 0 ELSE RowsBefore(k - 1) + Len(files[COUNTRIES[k - 1]].rows)

\* C4: with three well-formed files the loader returns one row per file
\* row, tagged with the file's country, in country order and then file
\* order; nothing is dropped, duplicated or deduplicated.
C4_RealRowsConcatenatedInOrder ==
    ((\A c \in CountrySet : WellFormed(files[c])) /\ out.status # "none") =>
        /\ Returned
        /\ Len(out.data) = RowsBefore(Len(COUNTRIES) + 1)
        /\ \A k \in 1..Len(COUNTRIES) :
               \A j \in 1..Len(files[COUNTRIES[k]].rows) :
                   out.data[RowsBefore(k) + j] =
                       [TIMESTAMP |-> files[COUNTRIES[k]].rows[j].TIMESTAMP,
                        GHI |-> files[COUNTRIES[k]].rows[j].GHI,
                        Country |-> COUNTRIES[k], origin |-> "file"]

\* C4 witness: three well-formed files, Benin's with two rows of the same
\* timestamp and different readings, loaded.
C4_Witness ==
    /\ Returned /\ out.executed
    /\ \A c \in CountrySet : WellFormed(files[c]) /\ Len(files[c].rows) > 0
    /\ Len(files["Benin"].rows) = 2
    /\ files["Benin"].rows[1].TIMESTAMP = files["Benin"].rows[2].TIMESTAMP
    /\ files["Benin"].rows[1].GHI # files["Benin"].rows[2].GHI

\* C5: a generated dataset has no negative GHI; a dataset read from the
\* files carries the files' readings unchanged, so it is non-negative
\* whenever the files are.
C5_MockClampedRealUnchanged ==
    Returned =>
        \A i \in 1..Len(out.data) :
            LET r == out.data[i]
            IN  /\ r.origin = "mock" => r.GHI >= 0
                /\ r.origin = "file" =>
                       \E j \in 1..Len(files[r.Country].rows) :
                           /\ files[r.Country].rows[j].GHI = r.GHI
                           /\ files[r.Country].rows[j].TIMESTAMP = r.TIMESTAMP

\* C5 witness: the mock branch ran and one country's value sits at the
\* clamp while another's is positive.
C5_Witness ==
    /\ Returned /\ out.mock
    /\ \E i, j \in 1..Len(out.data) : out.data[i].GHI = 0 /\ out.data[j].GHI > 0

-----------------------------------------------------------------------------
(* A session of the dashboard: reruns, changes of the data directory, and *)
(* restarts of the process                                                 *)

\* The files a session meets: absent, without GHI, or well-formed with one
\* row.
SessionFileStates ==
    {f \in FileStates : \/ ~f.exists
                        \/ f.columns = {"TIMESTAMP"}
                        \/ WellFormed(f) /\ Len(f.rows) = 1
                                         /\ f.rows[1].TIMESTAMP = 1
                                         /\ f.rows[1].GHI = 1}

InitSession ==
    /\ files \in [CountrySet -> SessionFileStates]
    /\ cache = EmptyCache
    /\ out = NoOutcome
    /\ view = NoView
    /\ df = << >>
    /\ trend = NoTrend
    /\ mean_ghi = NoTable

\* One run of main() with the widgets at (selected, granularity).
Run(selected, granularity) ==
    \E draws \in DrawsOf(cache, files) :
        LET r == CachedLoad(cache, files, draws)
        IN  /\ out' = r.out
            /\ cache' = r.cache
            /\ view' = Main(r.out, selected, granularity)
            /\ UNCHANGED <<files, df, trend, mean_ghi>>

\* The data directory changes while the process runs.
ReplaceFile(c, f) ==
    /\ f # files[c]
    /\ files' = [files EXCEPT ![c] = f]
    /\ UNCHANGED <<cache, out, view, df, trend, mean_ghi>>

\* The process restarts: the cache of st.cache_data is gone.
Restart ==
    /\ view.ran
    /\ cache' = EmptyCache
    /\ out' = NoOutcome
    /\ view' = NoView
    /\ UNCHANGED <<files, df, trend, mean_ghi>>

NextSession ==
    \/ \E selected \in SUBSET CountrySet, granularity \in GRANULARITIES :
           Run(selected, granularity)
    \/ \E c \in CountrySet, f \in SessionFileStates : ReplaceFile(c, f)
    \/ Restart

SpecSession == InitSession /\ [][NextSession]_vars

\* C7: once a dataset is cached, every later run gets that dataset without
\* the body running again, and the cached dataset changes only by a
\* restart.
C7_CachedDatasetReused ==
    [][cache.set =>
          \/ cache' = EmptyCache /\ view' = NoView
          \/ /\ cache' = cache
             /\ view' # view =>
                    /\ ~view'.executed
                    /\ view'.outcome = "ok"
                    /\ view'.df_combined = cache.value]_vars

\* C7 witness: a run was served from the cache with rows read from files
\* although a file has been removed since.
C7_Witness ==
    /\ cache.set /\ view.ran /\ ~view.executed
    /\ SomeFileAbsent
    /\ Len(view.df_combined) > 0 /\ AllFrom(view.df_combined, "file")
    /\ view.df_combined = cache.value

\* The k-th smallest element of a set of indices.
NthOf(idx, k) == CHOOSE i \in idx : Cardinality({j \in idx : j <= i}) = k

\* C8: a run whose loader returned completes; with an empty filtered
\* dataset no chart function is called and both warnings are shown,
\* otherwise both are called with exactly the rows of the combined dataset
\* whose country is selected.
C8_EmptySelectionIsNeutral ==
    view.ran =>
        /\ (view.outcome = "ok") <=> (out.status = "returned")
        /\ view.outcome = "ok" =>
               LET idx == {i \in 1..Len(view.df_combined) :
                              view.df_combined[i].Country \in view.selected}
               IN  IF idx = {}
                   THEN /\ ~view.comparison.called
                        /\ ~view.timeseries.called
                        /\ Len(view.warnings) = 2
                   ELSE /\ view.comparison.called
                        /\ view.timeseries.called
                        /\ view.warnings = << >>
                        /\ view.timeseries.granularity = view.granularity
                        /\ view.timeseries.df = view.comparison.df
                        /\ view.top_regions.df = view.df_combined
                        /\ Len(view.comparison.df) = Cardinality(idx)
                        /\ \A k \in 1..Cardinality(idx) :
                               view.comparison.df[k] = view.df_combined[NthOf(idx, k)]

\* C8 witness: a run with every country deselected over a dataset that has
\* rows.
C8_Witness ==
    /\ view.ran /\ view.outcome = "ok"
    /\ view.selected = {}
    /\ Len(view.df_combined) > 0
    /\ ~view.comparison.called /\ ~view.timeseries.called

-----------------------------------------------------------------------------
(* The aggregation functions on data frames *)

\* Readings of the frames handed to create_time_series_plot and to
\* create_top_regions_table.
TrendReadings == {0, 1}
TableReadings == {1, 3, 5}

FrameRows(timestamps, readings) ==
    [TIMESTAMP : timestamps, GHI : readings, Country : CountrySet, origin : {"file"}]

\* Rows in the order the loader lays them out: by country, then by time.
RowLeq(a, b) ==
    \/ CountryRank(a.Country) < CountryRank(b.Country)
    \/ /\ a.Country = b.Country
       /\ \/ a.TIMESTAMP < b.TIMESTAMP
          \/ a.TIMESTAMP = b.TIMESTAMP /\ a.GHI <= b.GHI

RECURSIVE OrderedFrames(_, _)
\* The frames of at most n rows of R, laid out in that order.
OrderedFrames(R, n) ==
    IF n = 0 THEN {<< >>}
    ELSE LET shorter == OrderedFrames(R, n - 1)
             Extensions(s) ==
                 {Append(s, x) : x \in {y \in R : Len(s) = 0 \/ RowLeq(s[Len(s)], y)}}
         IN  shorter \cup
             UNION {Extensions(s) : s \in {t \in shorter : Len(t) = n - 1}}

\* The non-empty frames of at most n rows handed to create_time_series_plot
\* and to create_top_regions_table.
TrendFrames(n) ==
    OrderedFrames(FrameRows(CalendarTimestamps, TrendReadings), n) \ {<< >>}

TableFrames(n) ==
    OrderedFrames(FrameRows({0}, TableReadings), n) \ {<< >>}

InitTrend ==
    /\ df \in TrendFrames(MaxFrameRows)
    /\ trend = NoTrend
    /\ mean_ghi = NoTable
    /\ files = [c \in CountrySet |-> Absent]
    /\ cache = EmptyCache
    /\ out = NoOutcome
    /\ view = NoView

\* create_time_series_plot(df, granularity): the table it resamples.
TimeSeries(granularity) ==
    /\ trend' = [trend EXCEPT ![granularity] =
                    [done |-> TRUE, rows |-> Resample(df, granularity)]]
    /\ UNCHANGED <<files, cache, out, view, df, mean_ghi>>

NextTrend == \E granularity \in GRANULARITIES : TimeSeries(granularity)

SpecTrend == InitTrend /\ [][NextTrend]_vars

InitTable ==
    /\ df \in TableFrames(MaxFrameRows)
    /\ trend = NoTrend
    /\ mean_ghi = NoTable
    /\ files = [c \in CountrySet |-> Absent]
    /\ cache = EmptyCache
    /\ out = NoOutcome
    /\ view = NoView

\* create_top_regions_table(df)
TopRegions ==
    /\ mean_ghi' = [done |-> TRUE, rows |-> create_top_regions_table(df)]
    /\ UNCHANGED <<files, cache, out, view, df, trend>>

NextTable == TopRegions

SpecTable == InitTable /\ [][NextTable]_vars

-----------------------------------------------------------------------------
(* Properties of the aggregation functions *)

\* The rows of df of one country, as a set of indices.
RowsOf(c) == {i \in 1..Len(df) : df[i].Country = c}

RECURSIVE SumAt(_)
\* The sum of the GHI of the rows of df at a set of indices.
SumAt(idx) ==
    IF idx = {} THEN 0
    ELSE LET i == CHOOSE j \in idx : TRUE IN df[i].GHI + SumAt(idx \ {i})

\* C6: the table has one row per country of the dataset, its value is the
\* country's mean GHI rounded to the nearest hundredth, and the rows are in
\* non-increasing order of that value.
C6_RankedSummary ==
    mean_ghi.done =>
        LET t == mean_ghi.rows
        IN  /\ Len(t) = Cardinality(CountriesIn(df))
            /\ {t[i].Country : i \in 1..Len(t)} = CountriesIn(df)
            /\ \A i \in 1..Len(t) :
                   LET n == Cardinality(RowsOf(t[i].Country))
                       d == 100 * SumAt(RowsOf(t[i].Country)) - t[i].Average_GHI * n
                   IN  2 * d <= n /\ -2 * d <= n
            /\ \A i, j \in 1..Len(t) :
                   i < j => t[i].Average_GHI >= t[j].Average_GHI

\* C6 witness: Benin's mean is 3, Sierra_Leone's 1 and Togo's 5, and the
\* table lists Togo, Benin, Sierra_Leone.
C6_Witness ==
    /\ mean_ghi.done
    /\ mean_ghi.rows = <<[Country |-> "Togo", Average_GHI |-> 500],
                         [Country |-> "Benin", Average_GHI |-> 300],
                         [Country |-> "Sierra_Leone", Average_GHI |-> 100]>>

\* The records of country c that fall in bucket b under a granularity.
InBucket(c, granularity, b) ==
    {i \in RowsOf(c) : Bucket(granularity, df[i].TIMESTAMP) = b}

\* C10: for each granularity the resampled table has at most one row per
\* (country, bucket), a row for every (country, bucket) that holds a record,
\* each row's value is the mean of the records of that country in that
\* bucket, no country of the dataset is dropped, and a country whose records
\* fall in one day has exactly one Daily row.
C10_OneRowPerCountryBucket ==
    \A g \in GRANULARITIES :
        trend[g].done =>
            LET t == trend[g].rows
            IN  /\ \A i, j \in 1..Len(t) :
                       (t[i].Country = t[j].Country /\ t[i].TIMESTAMP = t[j].TIMESTAMP)
                           => i = j
                /\ \A i \in 1..Len(t) :
                       LET b == Bucket(g, t[i].TIMESTAMP)
                       IN  /\ t[i].TIMESTAMP = Label(g, b)
                           /\ t[i].GHI.n = Cardinality(InBucket(t[i].Country, g, b))
                           /\ t[i].GHI.sum = SumAt(InBucket(t[i].Country, g, b))
                /\ \A k \in 1..Len(df) :
                       \E i \in 1..Len(t) :
                           /\ t[i].Country = df[k].Country
                           /\ t[i].TIMESTAMP = Label(g, Bucket(g, df[k].TIMESTAMP))
                /\ g = "Daily" =>
                       \A c \in CountriesIn(df) :
                           Cardinality({DayOf(df[k].TIMESTAMP) : k \in RowsOf(c)}) = 1
                               => Cardinality({i \in 1..Len(t) : t[i].Country = c}) = 1

\* C10 witness: Benin has two records at different times of one day, Togo a
\* record on the same day, and the Daily table has one row for each.
C10_Witness ==
    /\ trend["Daily"].done
    /\ Len(trend["Daily"].rows) = 2
    /\ \E i, j \in RowsOf("Benin") :
           /\ df[i].TIMESTAMP # df[j].TIMESTAMP
           /\ df[i].GHI # df[j].GHI
           /\ \E k \in RowsOf("Togo") : DayOf(df[k].TIMESTAMP) = DayOf(df[i].TIMESTAMP)

\* The rows of a resampled table of country c that hold a value.
ValuesOf(t, c) == {i \in 1..Len(t) : t[i].Country = c /\ t[i].GHI.n > 0}

RECURSIVE WeightedSum(_, _, _)
\* The sum of w[i] * value over rows idx of table t, as a fraction.
WeightedSum(t, idx, w) ==
    IF idx = {} THEN [num |-> 0, den |-> 1]
    ELSE LET i == CHOOSE j \in idx : TRUE
             rest == WeightedSum(t, idx \ {i}, w)
         IN  [num |-> w[i] * t[i].GHI.sum * rest.den + rest.num * t[i].GHI.n,
              den |-> t[i].GHI.n * rest.den]

RECURSIVE TotalWeight(_, _)
TotalWeight(idx, w) ==
    IF idx = {} THEN 0
    ELSE LET i == CHOOSE j \in idx : TRUE IN w[i] + TotalWeight(idx \ {i}, w)

\* The weighted mean of the values of country c in table t, as a fraction.
WeightedMean(t, c, w) ==
    LET s == WeightedSum(t, ValuesOf(t, c), w)
    IN  [num |-> s.num, den |-> s.den * TotalWeight(ValuesOf(t, c), w)]

\* Weights of the rows of a table: one each, or the days of the row's month.
Unweighted(t) == [i \in 1..Len(t) |-> 1]
DaysInMonth(t) ==
    [i \in 1..Len(t) |-> Calendar.monthDays[Bucket("Monthly", t[i].TIMESTAMP)]]

\* The mean of the Daily values of c equals the mean of its Monthly values
\* weighted by the days of each month.
ConsistentAcrossGranularities(c) ==
    LET daily == WeightedMean(trend["Daily"].rows, c, Unweighted(trend["Daily"].rows))
        monthly == WeightedMean(trend["Monthly"].rows, c,
                                DaysInMonth(trend["Monthly"].rows))
    IN  daily.num * monthly.den = monthly.num * daily.den

\* Every day of every month in which c has a record holds the same number
\* of records of c.
SameCountEveryDay(c) ==
    \E k \in 1..Len(df) :
        \A i \in RowsOf(c) :
            \A d \in 0..(NumDays - 1) :
                MonthOf(d) = MonthOf(DayOf(df[i].TIMESTAMP))
                    => Cardinality(InBucket(c, "Daily", d)) = k

\* C9 (as claimed): for every dataset and country the two means agree.
C9_ConsistentForAnyDistribution ==
    (trend["Daily"].done /\ trend["Monthly"].done) =>
        \A c \in CountriesIn(df) : ConsistentAcrossGranularities(c)

\* C9 (amended): the two means agree for a country whose records are spread
\* evenly, the same number on every day of every month it has records in.
C9_ConsistentForEvenDistribution ==
    (trend["Daily"].done /\ trend["Monthly"].done) =>
        \A c \in CountriesIn(df) :
            SameCountEveryDay(c) => ConsistentAcrossGranularities(c)

\* C9 witness: a country with one record on every day of both months, of
\* different readings, resampled Daily and Monthly.
C9_Witness ==
    /\ trend["Daily"].done /\ trend["Monthly"].done
    /\ \E c \in CountriesIn(df) :
           /\ SameCountEveryDay(c)
           /\ {MonthOf(DayOf(df[i].TIMESTAMP)) : i \in RowsOf(c)}
                  = 1..Len(Calendar.monthDays)
           /\ \E i, j \in RowsOf(c) : df[i].GHI # df[j].GHI

=============================================================================
